---- MODULE Spec2Model ----
(***************************************************************************)
(* Model of cfr_decompiler.py: the interactive driver, the three helpers   *)
(* (_extract_jar_contents, _run_cfr, _remove_class_files) and the three    *)
(* mode pipelines, over a small filesystem.                                *)
(*                                                                         *)
(* A directory tree (and the archive) is a function from relative file     *)
(* names to the content stored under that name, "absent" when no file has  *)
(* that name.  Content records who wrote the file: "jar" for bytes that    *)
(* came from an archive entry, "cfr" for decompiler output, "old" for      *)
(* bytes that were on disk before the first run.                           *)
(***************************************************************************)
EXTENDS Integers, FiniteSets, TLC

\* ---------------------------------------------------------------- bounds
MaxEntries == 2     \* entries of the target archive
MaxOld == 1         \* files below the output locations before the first run
MaxRuns == 2        \* successive invocations of the program

\* ----------------------------------------------------------------- names
ClassNames == {"A.class"}
SourceNames == {"A.java"}
Names == ClassNames \cup SourceNames \cup {"r.txt"}

Absent == "absent"
EmptyDir == [n \in Names |-> Absent]

Files(d) == {n \in Names : d[n] # Absent}

\* path.rglob('*.class'): the names the Cleaner's pattern matches
IsClass(n) == n \in ClassNames

ClassFiles(d) == {n \in Files(d) : IsClass(n)}

\* the file the decompiler writes for a class of the archive
SourceOf(c) == "A.java"

\* the files a successful decompiler run writes for archive a
CfrOutputs(a) == {SourceOf(c) : c \in ClassFiles(a)}

\* zip_ref.extractall(extract_dir): the entries in `recovered` are written
\* over whatever the directory held under the same name
ExtractAll(a, d, recovered) ==
    [n \in Names |-> IF n \in recovered THEN a[n] ELSE d[n]]

\* the decompiler writing the files `written` into directory d
CfrWrite(d, written) ==
    [n \in Names |-> IF n \in written THEN "cfr" ELSE d[n]]

\* _remove_class_files: every file the pattern matches is unlinked, except
\* those whose chmod/unlink raised (`failed`), which are logged and kept
RemoveClassFiles(d, failed) ==
    [n \in Names |-> IF IsClass(n) /\ n \notin failed THEN Absent ELSE d[n]]

\* the zip written from the files `written` of the tree d
ZipOf(d, written) ==
    [n \in Names |-> IF n \in written THEN d[n] ELSE Absent]

\* shutil.copy2 of the files `copied` of tree s into tree d
CopyInto(s, d, copied) ==
    [n \in Names |-> IF n \in copied THEN s[n] ELSE d[n]]

\* tempfile.TemporaryDirectory.__exit__: the working directory is removed
ExitScopeKeepsTmp(ds) == ds

ExitScope(ds) == ds \ {"tmp"}

\* __main__: the exit status the top-level handlers give each way out
ExitStatusInterruptFails(e) ==
    IF e = "none" THEN 0 ELSE 1

ExitStatus(e) ==
    IF e \in {"none", "KeyboardInterrupt"} THEN 0 ELSE 1

\* the positions of the with-body of a TemporaryDirectory
InTmpScope(p) ==
    p \in {"m1_extract", "m1_cfr", "m1_prune", "m1_zip",
           "m3_extract", "m3_prune", "m3_copy"}

VARIABLES
    cfrJar,     \* the decompiler artifact exists at cfr_path
    target,     \* the path the user entered names the archive, or nothing
    jar,        \* the archive on disk
    dirs,       \* the directories that exist, of tmp, out, java, res
    tmp,        \* the working directory's tree
    out,        \* the export folder's tree
    java,       \* <project>/src/main/java
    res,        \* <project>/src/main/resources
    gradle,     \* <project>/build.gradle
    pc,         \* position of the running program
    mode,       \* the mode the user selected
    exc,        \* the exception that ended the run
    raisedAt,   \* the position where it was raised
    exitCode,   \* process exit status, -1 while running
    log,        \* the messages printed in this run
    calls,      \* the pipeline steps executed in this run
    run,        \* number of this invocation
    pre,        \* the filesystem when this invocation started
    prevDone    \* the mode the previous invocation completed, if it did

vars == <<cfrJar, target, jar, dirs, tmp, out, java, res, gradle, pc, mode,
          exc, raisedAt, exitCode, log, calls, run, pre, prevDone>>

fsvars == <<jar, dirs, tmp, out, java, res, gradle>>

Snapshot == [jar |-> jar, dirs |-> dirs, out |-> out, java |-> java,
             res |-> res, gradle |-> gradle]

Archives ==
    {a \in [Names -> {Absent, "jar"}] : Cardinality(Files(a)) <= MaxEntries}

OldDirs ==
    {d \in [Names -> {Absent, "old"}] : Cardinality(Files(d)) <= MaxOld}

Init ==
    /\ cfrJar \in BOOLEAN
    /\ target = "unset"
    /\ jar \in Archives
    /\ tmp = EmptyDir
    /\ out \in OldDirs
    /\ java \in OldDirs
    /\ res \in OldDirs
    /\ Cardinality(Files(out)) + Cardinality(Files(java))
         + Cardinality(Files(res)) <= MaxOld
    /\ dirs = {l \in {"out", "java", "res"} :
                 Files(CASE l = "out" -> out [] l = "java" -> java
                        [] OTHER -> res) # {}}
    /\ gradle \in {Absent, "old"}
    /\ pc = "prompt"
    /\ mode = "unset"
    /\ exc = "none"
    /\ raisedAt = "none"
    /\ exitCode = -1
    /\ log = {}
    /\ calls = {}
    /\ run = 1
    /\ pre = Snapshot
    /\ prevDone = "none"

\* ------------------------------------------------------------ the driver
\* CheckPaths without the checks of the decompiler artifact
CheckPathsTargetOnly(tool, tgt) ==
    IF tgt # "jar" THEN "TargetNotFound" ELSE "none"

\* interactive_mode, lines 112-123: the two isfile checks, then the
\* constructor's own check of the decompiler artifact
CheckPaths(tool, tgt) ==
    IF ~tool THEN "ToolNotFound"
    ELSE IF tgt # "jar" THEN "TargetNotFound"
    ELSE "none"

\* the line the program prints when exception e ends the run
Message(e) ==
    CASE e = "ToolNotFound" -> {"CFR jar not found"}
      [] e = "TargetNotFound" -> {"Target jar not found"}
      [] e = "CalledProcessError" -> {"Running CFR", "Decompilation error",
                                      "Unexpected error"}
      [] e = "OSError" -> {"Unexpected error"}
      [] e = "KeyboardInterrupt" -> {"Aborted by user"}
      [] OTHER -> {}

\* an exception leaving the pipeline: the top-level handler of __main__
\* prints its line and exits; nothing of the run executes afterwards
Raise(e, at) ==
    /\ pc' = "done"
    /\ exc' = e
    /\ raisedAt' = at
    /\ exitCode' = ExitStatus(e)
    /\ log' = log \cup Message(e)

\* a step returning normally to position p, having printed msgs
Goto(p, msgs) ==
    /\ pc' = p
    /\ log' = log \cup msgs
    /\ UNCHANGED <<exc, raisedAt, exitCode>>

\* the selected mode returning normally: interactive_mode returns and the
\* process ends with status 0
Return(msgs) ==
    /\ pc' = "done"
    /\ exitCode' = ExitStatus("none")
    /\ log' = log \cup msgs
    /\ UNCHANGED <<exc, raisedAt>>

\* the tree of the working directory once the directories ds remain
TmpAfter(ds, t) == IF "tmp" \in ds THEN t ELSE EmptyDir

EnterTarget(p) ==
    /\ pc = "prompt"
    /\ target' = p
    /\ LET e == CheckPaths(cfrJar, p) IN
         IF e # "none" THEN Raise(e, "prompt") ELSE Goto("select", {})
    /\ UNCHANGED <<cfrJar, fsvars, mode, calls, run, pre, prevDone>>

SelectMode(m) ==
    /\ pc = "select"
    /\ mode' = m
    /\ CASE m = "1" -> Goto("m1_mktemp", {"Mode 1"})
         [] m = "2" -> Goto("m2_mkdir", {})
         [] m = "3" -> Goto("m3_mkdir", {})
         [] OTHER -> Return({"Unknown mode"})
    /\ UNCHANGED <<cfrJar, target, fsvars, calls, run, pre, prevDone>>

\* -------------------------------------------------------- mode_1_inplace
\* Mode1_MkTemp with the archive opened for writing at the start of the mode
Mode1_MkTemp_OpensArchive ==
    /\ pc = "m1_mktemp"
    /\ dirs' = dirs \cup {"tmp"}
    /\ tmp' = EmptyDir
    /\ jar' = EmptyDir
    /\ calls' = calls \cup {"mktemp"}
    /\ Goto("m1_extract", {})
    /\ UNCHANGED <<cfrJar, target, out, java, res, gradle, mode, run, pre,
                   prevDone>>

Mode1_MkTemp ==
    /\ pc = "m1_mktemp"
    /\ dirs' = dirs \cup {"tmp"}
    /\ tmp' = EmptyDir
    /\ calls' = calls \cup {"mktemp"}
    /\ Goto("m1_extract", {})
    /\ UNCHANGED <<cfrJar, target, jar, out, java, res, gradle, mode, run,
                   pre, prevDone>>

Mode1_Extract ==
    /\ pc = "m1_extract"
    /\ \E recovered \in SUBSET Files(jar) :
         /\ tmp' = ExtractAll(jar, tmp, recovered)
         /\ Goto("m1_cfr", IF recovered # Files(jar)
                            THEN {"Extraction warning"} ELSE {})
    /\ calls' = calls \cup {"extract"}
    /\ UNCHANGED <<cfrJar, target, jar, dirs, out, java, res, gradle, mode,
                   run, pre, prevDone>>

Mode1_RunCfr ==
    /\ pc = "m1_cfr"
    /\ calls' = calls \cup {"cfr"}
    /\ \E ok \in BOOLEAN, written \in SUBSET CfrOutputs(jar) :
         /\ ok => cfrJar /\ written = CfrOutputs(jar)
         /\ IF ok
            THEN /\ tmp' = CfrWrite(tmp, written)
                 /\ dirs' = dirs
                 /\ Goto("m1_prune", {"Running CFR"})
            ELSE /\ dirs' = ExitScope(dirs)
                 /\ tmp' = TmpAfter(dirs', CfrWrite(tmp, written))
                 /\ Raise("CalledProcessError", "m1_cfr")
    /\ UNCHANGED <<cfrJar, target, jar, out, java, res, gradle, mode, run,
                   pre, prevDone>>

Mode1_Prune ==
    /\ pc = "m1_prune"
    /\ calls' = calls \cup {"prune"}
    /\ \E failed \in SUBSET ClassFiles(tmp) :
         /\ tmp' = RemoveClassFiles(tmp, failed)
         /\ Goto("m1_zip", IF failed # {} THEN {"Could not remove file"}
                            ELSE {})
    /\ UNCHANGED <<cfrJar, target, jar, dirs, out, java, res, gradle, mode,
                   run, pre, prevDone>>

\* lines 58-64: the archive path is opened for writing (which truncates
\* it) and every file of the tree is written; an error part-way leaves the
\* entries written so far, an error at open leaves the archive as it was
Mode1_Zip ==
    /\ pc = "m1_zip"
    /\ calls' = calls \cup {"zip"}
    /\ dirs' = ExitScope(dirs)
    /\ tmp' = TmpAfter(dirs', tmp)
    /\ \/ /\ jar' = ZipOf(tmp, Files(tmp))
          /\ Return({"Done"})
       \/ /\ \E written \in SUBSET Files(tmp) :
               /\ written # Files(tmp)
               /\ jar' = ZipOf(tmp, written)
          /\ Raise("OSError", "m1_zip")
       \/ /\ jar' = jar
          /\ Raise("OSError", "m1_zip")
    /\ UNCHANGED <<cfrJar, target, out, java, res, gradle, mode, run, pre,
                   prevDone>>

\* ------------------------------------------------------ mode_2_to_folder
Mode2_MkDir ==
    /\ pc = "m2_mkdir"
    /\ calls' = calls \cup {"mkdir"}
    /\ \/ /\ dirs' = dirs \cup {"out"}
          /\ Goto("m2_extract", {"Mode 2"})
       \/ /\ dirs' = dirs
          /\ Raise("OSError", "m2_mkdir")
    /\ UNCHANGED <<cfrJar, target, jar, tmp, out, java, res, gradle, mode,
                   run, pre, prevDone>>

\* Mode2_Extract without the try/except around extractall
Mode2_Extract_Raises ==
    /\ pc = "m2_extract"
    /\ \E recovered \in SUBSET Files(jar) :
         /\ out' = ExtractAll(jar, out, recovered)
         /\ IF recovered # Files(jar)
            THEN Raise("OSError", "m2_extract")
            ELSE Goto("m2_cfr", {})
    /\ calls' = calls \cup {"extract"}
    /\ UNCHANGED <<cfrJar, target, jar, dirs, tmp, java, res, gradle, mode,
                   run, pre, prevDone>>

Mode2_Extract ==
    /\ pc = "m2_extract"
    /\ \E recovered \in SUBSET Files(jar) :
         /\ out' = ExtractAll(jar, out, recovered)
         /\ Goto("m2_cfr", IF recovered # Files(jar)
                            THEN {"Extraction warning"} ELSE {})
    /\ calls' = calls \cup {"extract"}
    /\ UNCHANGED <<cfrJar, target, jar, dirs, tmp, java, res, gradle, mode,
                   run, pre, prevDone>>

\* Mode2_RunCfr with the class files cleaned up when the decompiler fails
Mode2_RunCfr_PrunesOnError ==
    /\ pc = "m2_cfr"
    /\ \E ok \in BOOLEAN, written \in SUBSET CfrOutputs(jar) :
         /\ ok => cfrJar /\ written = CfrOutputs(jar)
         /\ IF ok
            THEN /\ out' = CfrWrite(out, written)
                 /\ calls' = calls \cup {"cfr"}
                 /\ Goto("m2_prune", {"Running CFR"})
            ELSE /\ out' = RemoveClassFiles(CfrWrite(out, written), {})
                 /\ calls' = calls \cup {"cfr", "prune"}
                 /\ Raise("CalledProcessError", "m2_cfr")
    /\ UNCHANGED <<cfrJar, target, jar, dirs, tmp, java, res, gradle, mode,
                   run, pre, prevDone>>

Mode2_RunCfr ==
    /\ pc = "m2_cfr"
    /\ calls' = calls \cup {"cfr"}
    /\ \E ok \in BOOLEAN, written \in SUBSET CfrOutputs(jar) :
         /\ ok => cfrJar /\ written = CfrOutputs(jar)
         /\ out' = CfrWrite(out, written)
         /\ IF ok
            THEN Goto("m2_prune", {"Running CFR"})
            ELSE Raise("CalledProcessError", "m2_cfr")
    /\ UNCHANGED <<cfrJar, target, jar, dirs, tmp, java, res, gradle, mode,
                   run, pre, prevDone>>

Mode2_Prune ==
    /\ pc = "m2_prune"
    /\ calls' = calls \cup {"prune"}
    /\ \E failed \in SUBSET ClassFiles(out) :
         /\ out' = RemoveClassFiles(out, failed)
         /\ Return({"Done"} \cup IF failed # {}
                                 THEN {"Could not remove file"} ELSE {})
    /\ UNCHANGED <<cfrJar, target, jar, dirs, tmp, java, res, gradle, mode,
                   run, pre, prevDone>>

\* ------------------------------------------------- mode_3_gradle_project
\* lines 83-84: java_dir.mkdir, then res_dir.mkdir
Mode3_MkDir ==
    /\ pc = "m3_mkdir"
    /\ calls' = calls \cup {"mkdir"}
    /\ \/ /\ dirs' = dirs \cup {"java", "res"}
          /\ Goto("m3_cfr", {"Mode 3"})
       \/ /\ dirs' = dirs \cup {"java"}
          /\ Raise("OSError", "m3_mkdir")
       \/ /\ dirs' = dirs
          /\ Raise("OSError", "m3_mkdir")
    /\ UNCHANGED <<cfrJar, target, jar, tmp, out, java, res, gradle, mode,
                   run, pre, prevDone>>

Mode3_RunCfr ==
    /\ pc = "m3_cfr"
    /\ calls' = calls \cup {"cfr"}
    /\ \E ok \in BOOLEAN, written \in SUBSET CfrOutputs(jar) :
         /\ ok => cfrJar /\ written = CfrOutputs(jar)
         /\ java' = CfrWrite(java, written)
         /\ IF ok
            THEN Goto("m3_mktemp", {"Running CFR"})
            ELSE Raise("CalledProcessError", "m3_cfr")
    /\ UNCHANGED <<cfrJar, target, jar, dirs, tmp, out, res, gradle, mode,
                   run, pre, prevDone>>

Mode3_MkTemp ==
    /\ pc = "m3_mktemp"
    /\ dirs' = dirs \cup {"tmp"}
    /\ tmp' = EmptyDir
    /\ calls' = calls \cup {"mktemp"}
    /\ Goto("m3_extract", {})
    /\ UNCHANGED <<cfrJar, target, jar, out, java, res, gradle, mode, run,
                   pre, prevDone>>

Mode3_Extract ==
    /\ pc = "m3_extract"
    /\ \E recovered \in SUBSET Files(jar) :
         /\ tmp' = ExtractAll(jar, tmp, recovered)
         /\ Goto("m3_prune", IF recovered # Files(jar)
                              THEN {"Extraction warning"} ELSE {})
    /\ calls' = calls \cup {"extract"}
    /\ UNCHANGED <<cfrJar, target, jar, dirs, out, java, res, gradle, mode,
                   run, pre, prevDone>>

Mode3_Prune ==
    /\ pc = "m3_prune"
    /\ calls' = calls \cup {"prune"}
    /\ \E failed \in SUBSET ClassFiles(tmp) :
         /\ tmp' = RemoveClassFiles(tmp, failed)
         /\ Goto("m3_copy", IF failed # {} THEN {"Could not remove file"}
                             ELSE {})
    /\ UNCHANGED <<cfrJar, target, jar, dirs, out, java, res, gradle, mode,
                   run, pre, prevDone>>

\* lines 94-100: every file left in the working directory is copied below
\* src/main/resources; the with block ends after the last copy
Mode3_Copy ==
    /\ pc = "m3_copy"
    /\ calls' = calls \cup {"copy"}
    /\ dirs' = ExitScope(dirs)
    /\ tmp' = TmpAfter(dirs', tmp)
    /\ \/ /\ res' = CopyInto(tmp, res, Files(tmp))
          /\ Goto("m3_gradle", {})
       \/ /\ \E copied \in SUBSET Files(tmp) :
               /\ copied # Files(tmp)
               /\ res' = CopyInto(tmp, res, copied)
          /\ Raise("OSError", "m3_copy")
    /\ UNCHANGED <<cfrJar, target, jar, out, java, gradle, mode, run, pre,
                   prevDone>>

\* lines 102-106: the fixed build.gradle is written at the project root
Mode3_Gradle ==
    /\ pc = "m3_gradle"
    /\ calls' = calls \cup {"gradle"}
    /\ \/ /\ gradle' = "fixed"
          /\ Return({"Done"})
       \/ /\ gradle' = gradle
          /\ Raise("OSError", "m3_gradle")
    /\ UNCHANGED <<cfrJar, target, jar, dirs, tmp, out, java, res, mode, run,
                   pre, prevDone>>

\* ------------------------------------------------------------ interrupts
\* Ctrl-C while the program runs: KeyboardInterrupt unwinds to __main__.
\* Inside a with-body the working directory is removed on the way out;
\* between mkdtemp and the entry of the body (inBody = FALSE) it is not.
Interrupt ==
    /\ pc # "done"
    /\ \E inBody \in BOOLEAN :
         /\ ~inBody => pc \in {"m1_extract", "m3_extract"}
         /\ dirs' = IF InTmpScope(pc) /\ inBody THEN ExitScope(dirs) ELSE dirs
         /\ Raise("KeyboardInterrupt", IF inBody THEN pc ELSE "mkdtemp")
    /\ tmp' = TmpAfter(dirs', tmp)
    /\ UNCHANGED <<cfrJar, target, jar, out, java, res, gradle, mode, calls,
                   run, pre, prevDone>>

\* ---------------------------------------------------- the next invocation
\* The program is started again on the filesystem the last run left.  A
\* working directory a run leaked has a name no later run uses, so it is
\* dropped from the state here.
Restart ==
    /\ pc = "done"
    /\ run < MaxRuns
    /\ run' = run + 1
    /\ pc' = "prompt"
    /\ target' = "unset"
    /\ mode' = "unset"
    /\ exc' = "none"
    /\ raisedAt' = "none"
    /\ exitCode' = -1
    /\ log' = {}
    /\ calls' = {}
    /\ dirs' = dirs \ {"tmp"}
    /\ tmp' = EmptyDir
    /\ pre' = [Snapshot EXCEPT !.dirs = dirs']
    /\ prevDone' = IF exc = "none" /\ mode \in {"1", "2", "3"} THEN mode
                    ELSE "none"
    /\ UNCHANGED <<cfrJar, jar, out, java, res, gradle>>

Next ==
    \/ \E p \in {"jar", "missing"} : EnterTarget(p)
    \/ \E m \in {"1", "2", "3", "x"} : SelectMode(m)
    \/ Mode1_MkTemp
    \/ Mode1_Extract
    \/ Mode1_RunCfr
    \/ Mode1_Prune
    \/ Mode1_Zip
    \/ Mode2_MkDir
    \/ Mode2_Extract
    \/ Mode2_RunCfr
    \/ Mode2_Prune
    \/ Mode3_MkDir
    \/ Mode3_RunCfr
    \/ Mode3_MkTemp
    \/ Mode3_Extract
    \/ Mode3_Prune
    \/ Mode3_Copy
    \/ Mode3_Gradle
    \/ Interrupt
    \/ Restart

Spec == Init /\ [][Next]_vars

\* ================================================================ claims
Modes == {"1", "2", "3"}

Succeeded == pc = "done" /\ exc = "none" /\ mode \in Modes

CfrSteps == {"m1_cfr", "m2_cfr", "m3_cfr"}

\* C1: after a mode returns without raising, its output location (the
\* rewritten archive, the export folder, src/main/java and
\* src/main/resources) holds no file matching *.class.
C1_NoClassFilesAfterSuccess ==
    Succeeded =>
        /\ mode = "1" => ClassFiles(jar) = {}
        /\ mode = "2" => ClassFiles(out) = {}
        /\ mode = "3" => ClassFiles(java) = {} /\ ClassFiles(res) = {}

\* C2: in Inplace mode the archive is as it was before the run until the
\* re-zip step, the re-zip step runs only after extraction, decompilation
\* and pruning, and a run the decompiler failed leaves the archive as it was.
C2_ArchiveUntouchedOnDecompileError ==
    mode = "1" =>
        /\ "zip" \notin calls => jar = pre.jar
        /\ "zip" \in calls => {"extract", "cfr", "prune"} \subseteq calls
        /\ exc = "CalledProcessError" => "zip" \notin calls /\ jar = pre.jar

C2_Witness ==
    /\ pc = "done"
    /\ mode = "1"
    /\ exc = "CalledProcessError"
    /\ {"extract", "cfr"} \subseteq calls
    /\ ClassFiles(jar) # {}

\* C3: after a successful Inplace run the archive's entry names include
\* every non-class entry name it had before the run and the decompiled
\* source of every class entry it had before the run.
C3_InplaceKeepsResourcesAddsSources ==
    (Succeeded /\ mode = "1") =>
        /\ (Files(pre.jar) \ ClassNames) \subseteq Files(jar)
        /\ \A c \in ClassFiles(pre.jar) : SourceOf(c) \in Files(jar)

\* C4: when a run has ended, on any way out other than an interrupt between
\* the working directory's creation and the entry of the with-body, no
\* working directory exists; Export mode never creates one.
C4_WorkingDirectoryRemoved ==
    /\ (pc = "done" /\ raisedAt # "mkdtemp") => "tmp" \notin dirs
    /\ mode = "2" => "mktemp" \notin calls /\ "tmp" \notin dirs

C4_Witness ==
    /\ pc = "done"
    /\ "mktemp" \in calls
    /\ exc = "OSError"
    /\ raisedAt = "m3_copy"
    /\ Files(res) # Files(pre.res)

\* C5: a successful Export run that follows a successful Export run of the
\* same archive into the same folder leaves the folder as the first run
\* left it, and the folder holds no class file after either run.
C5_ExportIdempotent ==
    (Succeeded /\ mode = "2" /\ prevDone = "2") =>
        /\ out = pre.out
        /\ ClassFiles(out) = {}
        /\ ClassFiles(pre.out) = {}

\* C6: after a successful ProjectScaffold run src/main/java holds only
\* decompiler output, src/main/resources holds every non-class entry of the
\* archive and no class file, and build.gradle has the fixed content.
C6_ProjectLayout ==
    (Succeeded /\ mode = "3") =>
        /\ \A n \in Files(java) : java[n] = "cfr"
        /\ \A n \in Files(jar) \ ClassNames : res[n] = jar[n]
        /\ ClassFiles(res) = {}
        /\ gradle = "fixed"

\* C7: with the decompiler artifact missing, once the target path is
\* entered the run has ended with status 1, no pipeline step has executed,
\* no mode was selected and the filesystem is as it was.
C7_ToolMissingAbortsFirst ==
    (~cfrJar /\ target # "unset") =>
        /\ pc = "done"
        /\ exc = "ToolNotFound"
        /\ exitCode = 1
        /\ calls = {}
        /\ mode = "unset"
        /\ Snapshot = pre
        /\ tmp = EmptyDir

C7_Witness ==
    /\ ~cfrJar
    /\ target = "jar"
    /\ pc = "done"
    /\ exitCode = 1
    /\ Files(jar) # {}

\* C8 (as stated): a run is only ever aborted by ToolNotFound,
\* TargetNotFound or DecompileError.
C8_OnlyThreeAbort ==
    (pc = "done" /\ exc \notin {"none", "KeyboardInterrupt"}) =>
        exc \in {"ToolNotFound", "TargetNotFound", "CalledProcessError"}

\* C8 (amended): ToolNotFound, TargetNotFound and DecompileError abort the
\* run with status 1, and so does a failure to create an output directory,
\* to re-zip the archive, to copy a resource or to write the manifest; no
\* run is aborted at an extraction or a class-file removal step, and a run
\* that only logged such warnings completes.
C8_AbortsAndWarnings ==
    pc = "done" =>
        /\ exc \in {"ToolNotFound", "TargetNotFound"} =>
               raisedAt = "prompt" /\ exitCode = 1
        /\ exc = "CalledProcessError" =>
               raisedAt \in CfrSteps /\ exitCode = 1 /\ "Done" \notin log
        /\ exc = "OSError" =>
               /\ raisedAt \in {"m2_mkdir", "m3_mkdir", "m1_zip", "m3_copy",
                                "m3_gradle"}
               /\ exitCode = 1
               /\ "Done" \notin log
        /\ (exc = "none" /\ mode \in Modes) =>
               "Done" \in log /\ exitCode = 0

C8_Witness ==
    /\ pc = "done"
    /\ exc = "OSError"
    /\ raisedAt = "m1_zip"
    /\ {"Extraction warning", "Could not remove file"} \subseteq log

\* C9: the exit status is 0 or 1 once the run has ended and not before; it
\* is 0 exactly when the run completed normally (an unknown mode included,
\* which executes no step) or was interrupted, and 1 exactly when the tool
\* or the target was missing or another error escaped a pipeline.
C9_ExitStatus ==
    /\ exitCode \in {-1, 0, 1}
    /\ pc = "done" <=> exitCode # -1
    /\ pc = "done" =>
        /\ exitCode = 0 <=> exc \in {"none", "KeyboardInterrupt"}
        /\ exitCode = 1 <=>
              \/ target # "unset" /\ (~cfrJar \/ target = "missing")
              \/ exc \in {"CalledProcessError", "OSError"}
        /\ (mode = "x" /\ exc = "none") =>
              exitCode = 0 /\ calls = {} /\ Snapshot = pre

C9_Witness ==
    /\ pc = "done"
    /\ exc = "KeyboardInterrupt"
    /\ exitCode = 0
    /\ "cfr" \in calls

\* C10: a run the decompiler failed stopped at the decompile step: no
\* prune, re-zip, copy or manifest step executed and nothing was rolled
\* back.  In Export the folder exists, keeps what it held and, when the
\* extraction was complete, holds every entry of the archive, class files
\* included; in ProjectScaffold both directories exist, no working
\* directory was created, and resources and build.gradle are as before.
C10_DecompileErrorAborts ==
    (pc = "done" /\ exc = "CalledProcessError") =>
        /\ raisedAt \in CfrSteps
        /\ calls \cap {"prune", "zip", "copy", "gradle"} = {}
        /\ "Done" \notin log
        /\ mode = "2" =>
              /\ "out" \in dirs
              /\ Files(pre.out) \subseteq Files(out)
              /\ "Extraction warning" \notin log =>
                    /\ Files(jar) \subseteq Files(out)
                    /\ \A c \in ClassFiles(jar) : out[c] = "jar"
        /\ mode = "3" =>
              /\ {"java", "res"} \subseteq dirs
              /\ "mktemp" \notin calls
              /\ Files(pre.java) \subseteq Files(java)
              /\ res = pre.res
              /\ gradle = pre.gradle

C10_Witness ==
    /\ pc = "done"
    /\ exc = "CalledProcessError"
    /\ mode = "2"
    /\ "Extraction warning" \notin log
    /\ ClassFiles(out) # {}
    /\ out["A.class"] = "jar"

====
